---------------------------- MODULE Spec2Model ----------------------------
(***************************************************************************)
(* The worker side of pytest-xdist (src/xdist/remote.py): the work queue,  *)
(* the command dispatcher (handle_command, steal), the delayed next item   *)
(* (DummyNext), the main loop (pytest_runtestloop, run_one_test), the      *)
(* report hook (pytest_runtest_logreport), the log relay                   *)
(* (RemoteMessageHandler.emit) and serialize_warning_message.              *)
(*                                                                         *)
(* Two threads act on the state.  The main thread runs pytest_runtestloop; *)
(* the channel's receiver thread runs handle_command for every inbound     *)
(* command.  queue.Queue operations (put, get, get_nowait) are atomic;     *)
(* everything else interleaves at attribute reads and writes.              *)
(***************************************************************************)
EXTENDS Integers, Sequences, FiniteSets, TLC

(* ------------------------------ bounds -------------------------------- *)
\* the largest number of collected items (len(session.items))
MaxItems == 2
\* the number of inbound commands the controller sends (one more in a
\* session of at most one item, see CmdBudget)
MaxCmds == 2
\* the longest indices list of one runtests command
MaxBatch == 2
\* how often the engine asks the next item for its chain during one item
MaxChainCalls == 1
\* the number of indices the controller enqueues over the whole session
MaxEnqueued == 2
\* the number of reports the engine makes over the whole session
MaxReports == 1
\* the number of log records handed to the log relay over the whole session
MaxLogs == 1
\* the most auxiliary attributes a warning carries besides message and category
MaxDetails == 3

(* ------------------------------ values -------------------------------- *)
\* WorkerInteractor.SHUTDOWN_MARK: a unique object, here a value no index has
SHUTDOWN_MARK == -1
\* Python's None (the unresolved DummyNext, the cleared nextitem_index)
None == -2

VARIABLES
  nitems,            \* len(self.session.items)
  queues,            \* the Queue instances made so far (_make_queue), by identity
  torun,             \* self.torun: the identity of the current queue
  callback_set,      \* channel.setcallback(self.handle_command, ...) was called
  closed,            \* the channel delivered its end marker
  ncmds,             \* commands delivered so far
  dpc,               \* receiver thread: position inside handle_command / steal
  old_queue,         \* steal: local old_queue
  indices,           \* steal: local indices (a set)
  stolen,            \* steal: local stolen (a list)
  i,                 \* steal: the loop variable i
  mpc,               \* main thread: position inside pytest_runtestloop
  nextitem_index,    \* self.nextitem_index
  item_index,        \* self.item_index
  getq,              \* the queue instance the main thread calls get() on
  ret,               \* which DummyNext method called _fetch
  real_next,         \* DummyNext.real_next of the current instance
  dn_nextitem_index, \* DummyNext.nextitem_index of the current instance
  chaincalls,        \* listchain() calls of the engine in this invocation
  events,            \* what channel.send was given, in order
  executed,          \* indices handed to pytest_runtest_protocol, in order
  enqueued,          \* indices the dispatcher put, in order
  cmdlog,            \* names of the commands delivered, in order
  dn_needwork,       \* runtest_need_work events of the current DummyNext
  dn_gets,           \* dequeues of the current DummyNext
  dn_results,        \* (real_next, nextitem_index) pairs its calls returned
  dn_calls,          \* _fetch calls on the current DummyNext
  stealP,            \* contents of the old queue at the swap of the last steal
  stealRace,         \* the main thread dequeued while that steal was running
  got,               \* every value the main thread dequeued, in order
  assert_failed,     \* the assert of pytest_runtest_logreport has failed
  emit_calls,        \* the records RemoteMessageHandler.emit was given, in order
  handle_errors,     \* calls of logging.Handler.handleError by emit
  warning_message,   \* the warning handed to pytest_warning_recorded
  result             \* what serialize_warning_message returned for it

vars == << nitems, queues, torun, callback_set, closed, ncmds, dpc, old_queue,
           indices, stolen, i, mpc, nextitem_index, item_index, getq, ret,
           real_next, dn_nextitem_index, chaincalls, events, executed,
           enqueued, cmdlog, dn_needwork, dn_gets, dn_results, dn_calls,
           stealP, stealRace, got, assert_failed, emit_calls, handle_errors,
           warning_message, result >>

wvars == << warning_message, result >>
lvars == << assert_failed, emit_calls, handle_errors, wvars >>
dvars == << old_queue, indices, stolen, i >>
mvars == << nextitem_index, item_index, getq, ret, real_next,
            dn_nextitem_index, chaincalls >>
dnhist == << dn_needwork, dn_gets, dn_results, dn_calls >>

(* ----------------------------- helpers -------------------------------- *)
Indices == 0 .. (nitems - 1)

\* the indices lists a runtests command may carry: distinct indices in any
\* order (the same index may come again in a later command)
Batches ==
  UNION { {b \in [1..n -> Indices] : \A x, y \in 1..n : x # y => b[x] # b[y]} :
            n \in 1..MaxBatch }

\* (name, kwargs) as given to channel.send, with the sending thread
EventFromReceiver(name, idx, idxs, thread) ==
  [name |-> name, item_index |-> idx, indices |-> idxs, thread |-> "receiver"]
Event(name, idx, idxs, thread) ==
  [name |-> name, item_index |-> idx, indices |-> idxs, thread |-> thread]

\* sendevent: self.channel.send((name, kwargs))
sendevent(log, name, idx, idxs, thread) ==
  Append(log, Event(name, idx, idxs, thread))

\* Queue.put: FIFO
PutFront(q, x) == <<x>> \o q
Put(q, x) == Append(q, x)

RECURSIVE PutAll(_, _)
PutAll(q, xs) == IF xs = <<>> THEN q ELSE PutAll(Put(q, Head(xs)), Tail(xs))

\* range(len(self.session.items))
RangeFromOne(n) == [k \in 1..n |-> k]
Range(n) == [k \in 1..n |-> k - 1]

\* DummyNext._fetch: if self.nextitem_index == None
UnresolvedTruthy(idx) == idx = None \/ idx = 0
Unresolved(idx) == idx = None

\* pytest_runtestloop: while self.nextitem_index is not self.SHUTDOWN_MARK
LoopContinuesTruthy(idx) == idx # SHUTDOWN_MARK /\ idx # 0
LoopContinuesNotNone(idx) == idx # None
LoopContinues(idx) == idx # SHUTDOWN_MARK

\* steal: if i in indices
IsStolenAlways(x, s) == x # SHUTDOWN_MARK
IsStolen(x, s) == x \in s

\* steal: the list given to sendevent("unscheduled", indices=stolen)
UnscheduledRequested(st, s) == SelectSeq(Range(nitems), LAMBDA x : x \in s)
Unscheduled(st, s) == st

\* steal: self.sendevent("unscheduled", indices=stolen), unconditionally
SendUnscheduledIfAny(log, st, s) ==
  IF st = <<>>
    THEN log
    ELSE sendevent(log, "unscheduled", None, Unscheduled(st, s), "receiver")
SendUnscheduled(log, st, s) ==
  sendevent(log, "unscheduled", None, Unscheduled(st, s), "receiver")

\* DummyNext._fetch: self.parent.sendevent("runtest_need_work") before the
\* call of get_more_work
NeedWorkNotSent(log) == log
NeedWork(log) == sendevent(log, "runtest_need_work", None, <<>>, "main")

\* DummyNext.listchain: self.real_next.listchain() if self.real_next else []
\* (the chain of a real item ends in the item; its ancestors are left out)
listchain(rn) == IF rn # None THEN <<rn>> ELSE <<>>

\* pytest_runtest_logreport: data["item_index"] = self.item_index
ReportIndexOfNext == dn_nextitem_index
ReportIndex == item_index

\* RemoteMessageHandler.emit: the record reaches send_log only if both
\* self.format(record) and pickle.dumps(record) returned
EmitSendsUnserialized(rec) == rec.fmt
EmitSends(rec) == rec.fmt /\ rec.ser

\* get_more_work: next_item = self.session.items[next], or None at the mark
NextItem(next) == IF next # SHUTDOWN_MARK THEN next ELSE None

(* ----------------------- warning serialization ----------------------- *)
\* Python values as far as serialization tells them apart: an identity, a
\* kind, and whether execnet's dumps accepts the value (DumpError if not)
PyNone == [kind |-> "none", id |-> 0, ser |-> TRUE]
Obj(n, ok) == [kind |-> "obj", id |-> n, ser |-> ok]
\* str(v), repr(v), type(v).__module__, type(v).__name__: strings derived
\* from the value, always serializable
str(v) == [kind |-> "str", id |-> v.id, ser |-> TRUE]
repr(v) == [kind |-> "repr", id |-> v.id, ser |-> TRUE]
ModuleOf(v) == [kind |-> "module", id |-> v.id, ser |-> TRUE]
ClassNameOf(v) == [kind |-> "classname", id |-> v.id, ser |-> TRUE]

\* try: dumps(v) except DumpError
Dumpable(v) == v.ser

\* warnings.WarningMessage._WARNING_DETAILS: message, category and the
\* auxiliary attributes, whose number varies between Python versions
AuxNames == <<"filename", "lineno", "file", "line", "source">>
DetailsOf(n) == <<"message", "category">> \o SubSeq(AuxNames, 1, n)
AuxOf(n) == {AuxNames[k] : k \in 1..n}

\* the value of auxiliary attribute number k, serializable or not
AttrValues(n) ==
  { f \in [AuxOf(n) -> {Obj(j, ok) : j \in 11..(10 + n), ok \in BOOLEAN}] :
      \A k \in 1..n : f[AuxNames[k]].id = 10 + k }

\* the captured warnings: the message is a Warning instance or not (a plain
\* string), its args dump or not, the category is set or not
WarningMessages ==
  UNION { [ is_warning : BOOLEAN,
            message : {Obj(1, TRUE)},
            args : {Obj(2, TRUE), Obj(2, FALSE)},
            category : {PyNone, Obj(3, TRUE)},
            naux : {n},
            attrs : AttrValues(n) ] : n \in 0..MaxDetails }

NoWarning ==
  [is_warning |-> FALSE, message |-> PyNone, args |-> PyNone,
   category |-> PyNone, naux |-> 0, attrs |-> [a \in {} |-> PyNone]]
NoResult == [a \in {} |-> PyNone]

\* the body of the loop over _WARNING_DETAILS:
\*   try: dumps(attr) except DumpError: result[attr_name] = repr(attr)
\*   else: result[attr_name] = attr
DetailOrNone(attr) == IF Dumpable(attr) THEN attr ELSE PyNone
Detail(attr) == IF Dumpable(attr) THEN attr ELSE repr(attr)

\* for attr_name in warning_message._WARNING_DETAILS: skip message and
\* category, store the others
RECURSIVE SerializeDetails(_, _, _)
SerializeDetails(res, w, names) ==
  IF names = <<>>
    THEN res
    ELSE IF Head(names) \in {"message", "category"}
           THEN SerializeDetails(res, w, Tail(names))
           ELSE SerializeDetails(
                  [a \in DOMAIN res \cup {Head(names)} |->
                     IF a = Head(names) THEN Detail(w.attrs[a]) ELSE res[a]],
                  w, Tail(names))

serialize_warning_message(w) ==
  LET message_str == IF w.is_warning THEN str(w.message) ELSE w.message
      message_module == IF w.is_warning THEN ModuleOf(w.message) ELSE PyNone
      message_class_name ==
        IF w.is_warning THEN ClassNameOf(w.message) ELSE PyNone
      message_args ==
        IF w.is_warning
          THEN IF Dumpable(w.args) THEN w.args ELSE PyNone
          ELSE PyNone
      category_module ==
        IF w.category # PyNone THEN ModuleOf(w.category) ELSE PyNone
      category_class_name ==
        IF w.category # PyNone THEN ClassNameOf(w.category) ELSE PyNone
  IN  SerializeDetails(
        [message_str |-> message_str,
         message_module |-> message_module,
         message_class_name |-> message_class_name,
         message_args |-> message_args,
         category_module |-> category_module,
         category_class_name |-> category_class_name],
        w, DetailsOf(w.naux))

(* ------------------------------- Init --------------------------------- *)
\* the WorkerInteractor after __init__, before pytest_runtestloop
Constructed ==
  /\ nitems \in 0..MaxItems
  /\ queues = << <<>> >>
  /\ torun = 1
  /\ callback_set = FALSE
  /\ closed = FALSE
  /\ ncmds = 0
  /\ dpc = "idle"
  /\ old_queue = 0
  /\ indices = {}
  /\ stolen = <<>>
  /\ i = None
  /\ mpc = "loop_entry"
  /\ nextitem_index = None
  /\ item_index = None
  /\ getq = 0
  /\ ret = "none"
  /\ real_next = None
  /\ dn_nextitem_index = None
  /\ chaincalls = 0
  /\ events = <<>>
  /\ executed = <<>>
  /\ enqueued = <<>>
  /\ cmdlog = <<>>
  /\ dn_needwork = 0
  /\ dn_gets = 0
  /\ dn_results = {}
  /\ dn_calls = 0
  /\ stealP = <<>>
  /\ stealRace = FALSE
  /\ got = <<>>
  /\ assert_failed = FALSE
  /\ emit_calls = <<>>
  /\ handle_errors = 0
  /\ result = NoResult

\* a session in which no warning is captured
Init ==
  /\ Constructed
  /\ warning_message = NoWarning

\* a session in which the engine captures one warning, any of WarningMessages
WarningInit ==
  /\ Constructed
  /\ warning_message \in WarningMessages

(* ----------------- receiver thread: handle_command -------------------- *)
\* how many commands the controller sends in this session: a session of at
\* most one item is small enough to be explored one command further
CmdBudget == IF nitems <= 1 THEN MaxCmds + 1 ELSE MaxCmds

\* A command is delivered once setcallback has installed handle_command,
\* the previous command has been handled, and the channel is still open.
CanReceive ==
  /\ callback_set
  /\ ~closed
  /\ dpc = "idle"
  /\ ncmds < CmdBudget

Delivered(name) ==
  /\ ncmds' = ncmds + 1
  /\ cmdlog' = Append(cmdlog, name)

\* name == "runtests": for i in kwargs["indices"]: self.torun.put(i)
CmdRuntests ==
  /\ CanReceive
  /\ \E b \in Batches :
       /\ Len(enqueued) + Len(b) <= MaxEnqueued
       /\ queues' = [queues EXCEPT ![torun] = PutAll(@, b)]
       /\ enqueued' = enqueued \o b
  /\ Delivered("runtests")
  /\ UNCHANGED << nitems, lvars, torun, callback_set, closed, dpc, dvars, mpc, mvars,
                  events, executed, dnhist, stealP, stealRace, got >>

\* name == "runtests_all": for i in range(len(self.session.items)): put(i)
CmdRuntestsAll ==
  /\ CanReceive
  /\ Len(enqueued) + nitems <= MaxEnqueued
  /\ queues' = [queues EXCEPT ![torun] = PutAll(@, Range(nitems))]
  /\ enqueued' = enqueued \o Range(nitems)
  /\ Delivered("runtests_all")
  /\ UNCHANGED << nitems, lvars, torun, callback_set, closed, dpc, dvars, mpc, mvars,
                  events, executed, dnhist, stealP, stealRace, got >>

\* name == "shutdown": self.torun.put(self.SHUTDOWN_MARK)
CmdShutdown ==
  /\ CanReceive
  /\ queues' = [queues EXCEPT ![torun] = Put(@, SHUTDOWN_MARK)]
  /\ Delivered("shutdown")
  /\ UNCHANGED << nitems, lvars, torun, callback_set, closed, dpc, dvars, mpc, mvars,
                  events, executed, enqueued, dnhist, stealP, stealRace, got >>

\* command is self.SHUTDOWN_MARK (the endmarker given to setcallback):
\* self.torun.put(self.SHUTDOWN_MARK); return.  The channel is closed then.
CmdEndMarker ==
  /\ CanReceive
  /\ queues' = [queues EXCEPT ![torun] = Put(@, SHUTDOWN_MARK)]
  /\ closed' = TRUE
  /\ Delivered("endmarker")
  /\ UNCHANGED << nitems, lvars, torun, callback_set, dpc, dvars, mpc, mvars,
                  events, executed, enqueued, dnhist, stealP, stealRace, got >>

\* name == "steal": steal(kwargs["indices"]), up to the swap
\*   indices = set(indices); stolen = []
\*   old_queue, self.torun = self.torun, self._make_queue()
CmdSteal ==
  /\ CanReceive
  /\ \E S \in SUBSET Indices : indices' = S
  /\ stolen' = <<>>
  /\ old_queue' = torun
  /\ queues' = Append(queues, <<>>)
  /\ torun' = Len(queues) + 1
  /\ dpc' = "drain"
  /\ stealP' = queues[torun]
  /\ stealRace' = FALSE
  /\ Delivered("steal")
  /\ UNCHANGED << nitems, lvars, callback_set, closed, i, mpc, mvars, events,
                  executed, enqueued, dnhist, got >>

\* for i in iter(old_queue_get_nowait_noraise, None): one turn of the loop.
\* get_nowait on an empty old queue raises Empty, which is suppressed: the
\* call returns None and the loop ends.  Otherwise the value is removed from
\* the old queue and the body runs:
\*   if i in indices: stolen.append(i) else: self.torun.put(i)
\* (between the get_nowait and the put the value is in neither queue; the
\* main thread cannot tell that from the put not having begun, so the turn
\* is one step)
StealDrain ==
  /\ dpc = "drain"
  /\ IF queues[old_queue] = <<>>
       THEN /\ dpc' = "send"
            /\ UNCHANGED << queues, i, stolen >>
       ELSE /\ i' = Head(queues[old_queue])
            /\ IF IsStolen(Head(queues[old_queue]), indices)
                 THEN /\ stolen' = Append(stolen, Head(queues[old_queue]))
                      /\ queues' = [queues EXCEPT ![old_queue] = Tail(@)]
                 ELSE /\ queues' = [queues EXCEPT
                                      ![old_queue] = Tail(@),
                                      ![torun] = Put(@, Head(queues[old_queue]))]
                      /\ UNCHANGED stolen
            /\ dpc' = "drain"
  /\ UNCHANGED << nitems, lvars, torun, callback_set, closed, ncmds, old_queue,
                  indices, mpc, mvars, events, executed, enqueued, cmdlog,
                  dnhist, stealP, stealRace, got >>

\* self.sendevent("unscheduled", indices=stolen), on the receiver thread;
\* steal returns and its locals are gone
StealSend ==
  /\ dpc = "send"
  /\ events' = SendUnscheduled(events, stolen, indices)
  /\ dpc' = "idle"
  /\ old_queue' = 0
  /\ indices' = {}
  /\ stolen' = <<>>
  /\ i' = None
  /\ stealP' = <<>>
  /\ stealRace' = FALSE
  /\ UNCHANGED << nitems, lvars, queues, torun, callback_set, closed, ncmds, mpc,
                  mvars, executed, enqueued, cmdlog, dnhist, got >>

Receiver ==
  \/ CmdRuntests
  \/ CmdRuntestsAll
  \/ CmdShutdown
  \/ CmdEndMarker
  \/ CmdSteal
  \/ StealDrain
  \/ StealSend

(* ---------------- main thread: pytest_runtestloop --------------------- *)
\* self.channel.setcallback(self.handle_command, endmarker=self.SHUTDOWN_MARK)
SetCallback ==
  /\ mpc = "loop_entry"
  /\ callback_set' = TRUE
  /\ mpc' = "first_read"
  /\ UNCHANGED << nitems, lvars, queues, torun, closed, ncmds, dpc, dvars, mvars,
                  events, executed, enqueued, cmdlog, dnhist, stealP,
                  stealRace, got >>

\* DummyNext.__init__ (a fresh instance per run_one_test)
NewDummyNext ==
  /\ real_next' = None
  /\ dn_nextitem_index' = None
  /\ dn_needwork' = 0
  /\ dn_gets' = 0
  /\ dn_results' = {}
  /\ dn_calls' = 0

\* while self.nextitem_index is not self.SHUTDOWN_MARK: self.run_one_test()
\* return True
\* with run_one_test up to the hook call, all of it local to the main thread:
\*   self.item_index = self.nextitem_index; item = items[self.item_index]
\*   self.nextitem_index = None; next = DummyNext(self)
\*   self.config.hook.pytest_runtest_protocol(item=item, nextitem=next)
While ==
  /\ mpc = "while"
  /\ IF LoopContinues(nextitem_index)
       THEN /\ item_index' = nextitem_index
            /\ nextitem_index' = None
            /\ executed' = Append(executed, nextitem_index)
            /\ NewDummyNext
            /\ mpc' = "engine"
       ELSE /\ mpc' = "done"
            /\ UNCHANGED << item_index, nextitem_index, executed, real_next,
                            dn_nextitem_index, dnhist >>
  /\ UNCHANGED << nitems, lvars, queues, torun, callback_set, closed, ncmds, dpc,
                  dvars, getq, ret, chaincalls, events, enqueued, cmdlog,
                  stealP, stealRace, got >>

\* self.nextitem_index = self.torun.get(): the attribute read of self.torun
FirstRead ==
  /\ mpc = "first_read"
  /\ getq' = torun
  /\ mpc' = "first_get"
  /\ UNCHANGED << nitems, lvars, queues, torun, callback_set, closed, ncmds, dpc,
                  dvars, nextitem_index, item_index, ret, real_next,
                  dn_nextitem_index, chaincalls, events, executed, enqueued,
                  cmdlog, dnhist, stealP, stealRace, got >>

\* ... and the blocking get() on the instance that was read
FirstGet ==
  /\ mpc = "first_get"
  /\ queues[getq] # <<>>
  /\ nextitem_index' = Head(queues[getq])
  /\ queues' = [queues EXCEPT ![getq] = Tail(@)]
  /\ got' = Append(got, Head(queues[getq]))
  /\ stealRace' = (stealRace \/ dpc # "idle")
  /\ getq' = 0
  /\ mpc' = "while"
  /\ UNCHANGED << nitems, lvars, torun, callback_set, closed, ncmds, dpc, dvars,
                  item_index, ret, real_next, dn_nextitem_index, chaincalls,
                  events, executed, enqueued, cmdlog, dnhist, stealP >>

\* The engine, inside pytest_runtest_protocol, calls nextitem.listchain():
\* DummyNext.listchain -> _fetch.  Unresolved: send runtest_need_work and
\* enter get_more_work.  Resolved: answer from the cached pair.
EngineListchain ==
  /\ mpc = "engine"
  /\ chaincalls < MaxChainCalls
  /\ chaincalls' = chaincalls + 1
  /\ dn_calls' = dn_calls + 1
  /\ IF Unresolved(dn_nextitem_index)
       THEN /\ events' = NeedWork(events)
            /\ dn_needwork' = dn_needwork + 1
            /\ ret' = "listchain"
            /\ mpc' = "gmw_read"
            /\ UNCHANGED dn_results
       ELSE /\ dn_results' = dn_results \cup {<<real_next, dn_nextitem_index>>}
            /\ UNCHANGED << events, dn_needwork, ret, mpc >>
  /\ UNCHANGED << nitems, lvars, queues, torun, callback_set, closed, ncmds, dpc,
                  dvars, nextitem_index, item_index, getq, real_next,
                  dn_nextitem_index, executed, enqueued, cmdlog, dn_gets,
                  stealP, stealRace, got >>

\* pytest_runtest_protocol returns
EngineReturn ==
  /\ mpc = "engine"
  /\ mpc' = "complete"
  /\ chaincalls' = 0
  /\ UNCHANGED << nitems, lvars, queues, torun, callback_set, closed, ncmds, dpc,
                  dvars, nextitem_index, item_index, getq, ret, real_next,
                  dn_nextitem_index, events, executed, enqueued, cmdlog,
                  dnhist, stealP, stealRace, got >>

\* pytest_runtest_protocol raises (any BaseException)
EngineRaise ==
  /\ mpc = "engine"
  /\ mpc' = "except"
  /\ chaincalls' = 0
  /\ UNCHANGED << nitems, lvars, queues, torun, callback_set, closed, ncmds, dpc,
                  dvars, nextitem_index, item_index, getq, ret, real_next,
                  dn_nextitem_index, events, executed, enqueued, cmdlog,
                  dnhist, stealP, stealRace, got >>

\* except BaseException as e:
\*     self.sendevent("exception", exception=pickle.dumps(sys.exc_info()))
\* sys.exc_info() holds the traceback object.  pickle.dumps raises TypeError
\* (cannot pickle 'traceback' object) unless the process has registered a
\* reducer for tracebacks; the TypeError is raised inside the handler, so it
\* leaves run_one_test and pytest_runtestloop.
Except ==
  /\ mpc = "except"
  /\ \E picklable \in BOOLEAN :
       IF picklable
         THEN /\ events' = sendevent(events, "exception", None, <<>>, "main")
              /\ mpc' = "complete"
         ELSE /\ mpc' = "raised"
              /\ UNCHANGED events
  /\ UNCHANGED << nitems, lvars, queues, torun, callback_set, closed, ncmds, dpc,
                  dvars, mvars, executed, enqueued, cmdlog, dnhist, stealP,
                  stealRace, got >>

\* self.sendevent("runtest_protocol_complete",
\*                item_index=self.item_index, duration=duration)
Complete ==
  /\ mpc = "complete"
  /\ events' = sendevent(events, "runtest_protocol_complete", item_index,
                         <<>>, "main")
  /\ mpc' = "next_index"
  /\ UNCHANGED << nitems, lvars, queues, torun, callback_set, closed, ncmds, dpc,
                  dvars, mvars, executed, enqueued, cmdlog, dnhist, stealP,
                  stealRace, got >>

\* self.nextitem_index = next._next_index(): DummyNext._next_index -> _fetch.
\* Resolved already: the cached index is returned and stored.
NextIndex ==
  /\ mpc = "next_index"
  /\ dn_calls' = dn_calls + 1
  /\ IF Unresolved(dn_nextitem_index)
       THEN /\ events' = NeedWork(events)
            /\ dn_needwork' = dn_needwork + 1
            /\ ret' = "next_index"
            /\ mpc' = "gmw_read"
            /\ UNCHANGED << dn_results, nextitem_index >>
       ELSE /\ dn_results' = dn_results \cup {<<real_next, dn_nextitem_index>>}
            /\ nextitem_index' = dn_nextitem_index
            /\ mpc' = "while"
            /\ UNCHANGED << events, dn_needwork, ret >>
  /\ UNCHANGED << nitems, lvars, queues, torun, callback_set, closed, ncmds, dpc,
                  dvars, item_index, getq, real_next, dn_nextitem_index,
                  chaincalls, executed, enqueued, cmdlog, dn_gets, stealP,
                  stealRace, got >>

\* get_more_work: next = self.torun.get(): the attribute read of self.torun
GetMoreWorkRead ==
  /\ mpc = "gmw_read"
  /\ getq' = torun
  /\ mpc' = "gmw_get"
  /\ UNCHANGED << nitems, lvars, queues, torun, callback_set, closed, ncmds, dpc,
                  dvars, nextitem_index, item_index, ret, real_next,
                  dn_nextitem_index, chaincalls, events, executed, enqueued,
                  cmdlog, dnhist, stealP, stealRace, got >>

\* ... the blocking get(), then
\*   self.real_next, self.nextitem_index = (next_item, next)   in _fetch
\* and the return of the DummyNext method that called _fetch: listchain
\* returns into the engine, _next_index into run_one_test, which stores the
\* index in self.nextitem_index
GetMoreWorkGet ==
  /\ mpc = "gmw_get"
  /\ queues[getq] # <<>>
  /\ LET next == Head(queues[getq]) IN
       /\ queues' = [queues EXCEPT ![getq] = Tail(@)]
       /\ got' = Append(got, next)
       /\ real_next' = NextItem(next)
       /\ dn_nextitem_index' = next
       /\ dn_gets' = dn_gets + 1
       /\ dn_results' = dn_results \cup {<<NextItem(next), next>>}
       /\ IF ret = "listchain"
            THEN /\ mpc' = "engine"
                 /\ UNCHANGED nextitem_index
            ELSE /\ nextitem_index' = next
                 /\ mpc' = "while"
  /\ stealRace' = (stealRace \/ dpc # "idle")
  /\ getq' = 0
  /\ ret' = "none"
  /\ UNCHANGED << nitems, lvars, torun, callback_set, closed, ncmds, dpc, dvars,
                  item_index, chaincalls, events, executed, enqueued, cmdlog,
                  dn_needwork, dn_calls, stealP >>

MainLoop ==
  \/ SetCallback
  \/ FirstRead
  \/ FirstGet
  \/ While
  \/ EngineListchain
  \/ EngineReturn
  \/ EngineRaise
  \/ Except
  \/ Complete
  \/ NextIndex
  \/ GetMoreWorkRead
  \/ GetMoreWorkGet

(* ------------------- engine reports and log relay --------------------- *)
\* The engine, inside pytest_runtest_protocol, reports on the item it was
\* handed (the last one executed): pytest_runtest_logreport(report)
\*   data["item_index"] = self.item_index
\*   assert self.session.items[self.item_index].nodeid == report.nodeid
\*   self.sendevent("testreport", data=data)
\* A failed assert raises before the event is sent.
EngineReport ==
  /\ mpc = "engine"
  /\ ~assert_failed
  /\ Cardinality({k \in 1..Len(events) : events[k].name = "testreport"})
       < MaxReports
  /\ IF ReportIndex = executed[Len(executed)]
       THEN /\ events' = sendevent(events, "testreport", ReportIndex, <<>>, "main")
            /\ UNCHANGED assert_failed
       ELSE /\ assert_failed' = TRUE
            /\ UNCHANGED events
  /\ UNCHANGED << nitems, queues, torun, callback_set, closed, ncmds, dpc,
                  dvars, mpc, mvars, executed, enqueued, cmdlog, dnhist,
                  stealP, stealRace, got, emit_calls, handle_errors, wvars >>

\* the log records a thread may hand to the handler: whether format() and
\* pickle.dumps() return for it, and the logging thread
LogRecords == [fmt : BOOLEAN, ser : BOOLEAN, thread : {"main", "other"}]

\* RemoteMessageHandler.emit(record), installed when log_cli_level is set:
\*   try: msg = self.format(record); ...; x = pickle.dumps(record)
\*        self.queue.send_log(x)     -> sendevent("runtest_logmessage", ...)
\*   except Exception: self.handleError(record)
\* The main thread logs only from inside the engine invocation (test code);
\* any other thread logs at any time.
LogEmit ==
  /\ Len(emit_calls) < MaxLogs
  /\ \E rec \in LogRecords :
       /\ rec.thread = "main" => mpc = "engine"
       /\ emit_calls' = Append(emit_calls, rec)
       /\ IF EmitSends(rec)
            THEN /\ events' = sendevent(events, "runtest_logmessage", None,
                                        <<>>, rec.thread)
                 /\ UNCHANGED handle_errors
            ELSE /\ handle_errors' = handle_errors + 1
                 /\ UNCHANGED events
  /\ UNCHANGED << nitems, queues, torun, callback_set, closed, ncmds, dpc,
                  dvars, mpc, mvars, executed, enqueued, cmdlog, dnhist,
                  stealP, stealRace, got, assert_failed, wvars >>

\* pytest_warning_recorded(warning_message, ...), called by the engine:
\*   self.sendevent("warning_recorded",
\*       warning_message_data=serialize_warning_message(warning_message), ...)
WarningRecorded ==
  /\ warning_message # NoWarning
  /\ result = NoResult
  /\ result' = serialize_warning_message(warning_message)
  /\ events' = sendevent(events, "warning_recorded", None, <<>>, "main")
  /\ UNCHANGED << nitems, queues, torun, callback_set, closed, ncmds, dpc,
                  dvars, mpc, mvars, executed, enqueued, cmdlog, dnhist,
                  stealP, stealRace, got, assert_failed, emit_calls,
                  handle_errors, warning_message >>

(* --------------------------- specification ---------------------------- *)
Next ==
  \/ Receiver
  \/ MainLoop

Spec == Init /\ [][Next]_vars

\* the session with the engine's reports and, log_cli_level being set, the
\* log relay
NextReporting ==
  \/ Next
  \/ EngineReport
  \/ LogEmit

ReportingSpec == Init /\ [][NextReporting]_vars

\* the serialization of one captured warning, for every warning of
\* WarningMessages
WarningSpec == WarningInit /\ [][WarningRecorded]_vars

\* The main thread is scheduled whenever it can run, and the receiver thread
\* finishes a steal it has begun; the controller owes no further command.
FairSpec ==
  /\ Spec
  /\ WF_vars(MainLoop)
  /\ WF_vars(StealDrain \/ StealSend)

(* ------------------------------ claims -------------------------------- *)
Has(seq, x) == \E k \in 1..Len(seq) : seq[k] = x
Count(seq, x) == Cardinality({k \in 1..Len(seq) : seq[k] = x})

ShutdownDispatched == Has(cmdlog, "shutdown")

\* C1: once a shutdown command has been dispatched, the main loop eventually
\* dequeues the mark and returns (or has left through an engine failure, which
\* the claim sets aside), whatever the interleaving of runtests and steal
\* with the loop's blocking dequeues.
C1_ShutdownLeadsToReturn ==
  ShutdownDispatched ~> (mpc = "done" \/ mpc = "raised")

Last(seq) == seq[Len(seq)]
Front(seq) == SubSeq(seq, 1, Len(seq) - 1)
NoDup(seq) == \A a, b \in 1..Len(seq) : a # b => seq[a] # seq[b]
Elems(seq) == {seq[k] : k \in 1..Len(seq)}

\* the part of the pending contents P a steal of S keeps, and the part it takes
Kept(P, S) == SelectSeq(P, LAMBDA x : x \notin S)
Reclaimed(P, S) == SelectSeq(P, LAMBDA x : x \in S)

\* C2: a steal of S over pending contents P, with no dequeue of the main
\* thread between its swap and its event, leaves exactly the elements of P
\* not in S in the current queue, in P's order, and reports exactly the
\* elements of P in S, in P's order.
C2_StealPartitionsPending ==
  [][ (dpc = "send" /\ dpc' = "idle" /\ ~stealRace) =>
        /\ queues'[torun'] = Kept(stealP, indices)
        /\ Last(events').name = "unscheduled"
        /\ Last(events').indices = Reclaimed(stealP, indices) ]_vars

\* a steal has drained a queue of at least two pending values, taking some
\* and keeping some, with no dequeue in between
C2_Witness ==
  /\ dpc = "send"
  /\ ~stealRace
  /\ Len(stealP) >= 2
  /\ stolen # <<>>
  /\ queues[torun] # <<>>

\* every index reported in an unscheduled event so far
Reported == UNION { Elems(events[k].indices) :
                      k \in {j \in 1..Len(events) : events[j].name = "unscheduled"} }

\* C3: with each index enqueued at most once, no index is both reported in
\* an unscheduled event and executed, or held as the resolved next item, by
\* the main loop.
C3_StolenNeverExecuted ==
  NoDup(enqueued) =>
    \A x \in Reported :
      /\ x \notin Elems(executed)
      /\ x \notin Elems(got)
      /\ x # nextitem_index
      /\ x # dn_nextitem_index

\* a steal that raced with a dequeue of the main thread has been reported,
\* and it reclaimed something
C3_Witness ==
  /\ NoDup(enqueued)
  /\ executed # <<>>
  /\ Reported # {}
  /\ \E k \in 1..Len(events) :
       /\ events[k].name = "unscheduled"
       /\ events[k].indices # <<>>
       /\ \E j \in 1..(k - 1) : events[j].name = "runtest_need_work"

\* C4: the current work queue holds at most one shutdown mark.
C4_AtMostOneMark == Count(queues[torun], SHUTDOWN_MARK) <= 1

\* the executed indices that no unscheduled event reported
KeptExecuted == SelectSeq(executed, LAMBDA x : x \notin Reported)
Pos(seq, x) == CHOOSE k \in 1..Len(seq) : seq[k] = x

\* C5: with each index enqueued at most once, the indices the main loop
\* executes and that were never reported as unscheduled are executed in the
\* order in which the dispatcher enqueued them.
C5_KeptRunInInsertionOrder ==
  NoDup(enqueued) =>
    \A a, b \in 1..Len(KeptExecuted) :
      a < b => Pos(enqueued, KeptExecuted[a]) < Pos(enqueued, KeptExecuted[b])

\* the item_index of every runtest_protocol_complete event, in order
CompleteIndices ==
  LET c == SelectSeq(events, LAMBDA e : e.name = "runtest_protocol_complete")
  IN  [k \in 1..Len(c) |-> c[k].item_index]

\* the engine invocation of the current item has not yet been followed by
\* its runtest_protocol_complete event
InInvocation ==
  \/ mpc \in {"engine", "except", "complete"}
  \/ (mpc \in {"gmw_read", "gmw_get"} /\ ret = "listchain")

\* C6: exactly one runtest_protocol_complete event per executed item, with
\* that item's index, emitted after the item's engine invocation has
\* returned or failed and before the invocation of any later item: outside
\* an invocation the events' indices are the executed indices, inside one
\* they are those of the earlier items.
C6_OneCompletePerItem ==
  CompleteIndices = IF InInvocation THEN Front(executed) ELSE executed

\* C7: a failure of the engine invocation does not stop the loop: the
\* handler emits an exception event and goes on to the
\* runtest_protocol_complete event of the failed item, after which the next
\* index is resolved; the loop is never left through the failure.
C7_FailureDoesNotStopLoop ==
  [][ /\ (mpc = "except" /\ mpc' # "except") =>
           /\ mpc' = "complete"
           /\ Last(events').name = "exception"
      /\ (mpc = "complete" /\ mpc' # "complete") =>
           /\ mpc' = "next_index"
           /\ Last(events').name = "runtest_protocol_complete"
           /\ Last(events').item_index = item_index
      /\ mpc' # "raised" ]_vars

\* C8: a DummyNext instance resolves at most once: it sends at most one
\* runtest_need_work event, dequeues at most once, and every call answers
\* with the same (item, index) pair.
C8_DummyNextResolvesOnce ==
  /\ dn_needwork <= 1
  /\ dn_gets <= 1
  /\ Cardinality(dn_results) <= 1
  /\ dn_gets <= dn_needwork

\* an instance resolved to index 0 has answered a later call from its cache
C8_Witness ==
  /\ dn_calls >= 2
  /\ dn_gets = 1
  /\ dn_nextitem_index = 0
  /\ mpc \in {"engine", "while"}

\* C9: the main loop returns only when the last value it dequeued is the
\* shutdown mark, and once the mark has been dequeued the loop dequeues
\* nothing more and starts no further item.
C9_ReturnsOnlyAtMark ==
  /\ mpc = "done" =>
       /\ got # <<>>
       /\ Last(got) = SHUTDOWN_MARK
       /\ nextitem_index = SHUTDOWN_MARK
  /\ Has(got, SHUTDOWN_MARK) =>
       /\ Last(got) = SHUTDOWN_MARK
       /\ Count(got, SHUTDOWN_MARK) = 1
       /\ executed = Front(got)
       /\ mpc \notin {"first_read", "first_get", "gmw_read", "gmw_get"}

\* the loop has returned after running an item whose DummyNext resolved to
\* the mark inside the engine invocation
C9_Witness ==
  /\ mpc = "done"
  /\ executed # <<>>
  /\ dn_calls >= 2

\* C10: when the commands are one runtests_all followed by shutdown, the
\* indices the main loop dequeues and executes are 0, 1, ..., N-1 in that
\* order: a prefix of them at every moment, all of them when it returns.
C10_RunAllInOrder ==
  /\ cmdlog \in {<<>>, <<"runtests_all">>, <<"runtests_all", "shutdown">>} =>
       /\ Len(executed) <= nitems
       /\ \A k \in 1..Len(executed) : executed[k] = k - 1
       /\ Len(got) <= nitems + 1
       /\ \A k \in 1..Len(got) :
            got[k] = IF k <= nitems THEN k - 1 ELSE SHUTDOWN_MARK
  /\ (cmdlog = <<"runtests_all", "shutdown">> /\ mpc = "done") =>
       /\ Len(executed) = nitems
       /\ Len(got) = nitems + 1

\* the loop has returned after a runtests_all over two or more items
C10_Witness ==
  /\ cmdlog = <<"runtests_all", "shutdown">>
  /\ mpc = "done"
  /\ nitems >= 2
  /\ Len(executed) = nitems

\* the unscheduled events sent so far, in order
UnscheduledEvents == SelectSeq(events, LAMBDA e : e.name = "unscheduled")

\* C11: every steal command produces exactly one unscheduled event, after
\* its drain has emptied the old queue, also when it reclaimed nothing: the
\* events counted are the steals delivered less the one still running, the
\* old queue is empty when the event is about to be sent, and a steal that
\* has begun comes to its end.
C11_StealSendsOneUnscheduled ==
  /\ [](/\ Len(UnscheduledEvents) =
             Count(cmdlog, "steal") - (IF dpc = "idle" THEN 0 ELSE 1)
        /\ dpc = "send" => queues[old_queue] = <<>>)
  /\ (dpc # "idle") ~> (dpc = "idle")

\* two steals have ended, one that reclaimed an index and one that found
\* nothing to reclaim and sent an empty list
C11_Witness ==
  /\ dpc = "idle"
  /\ Count(cmdlog, "steal") = 2
  /\ \E a, b \in 1..Len(UnscheduledEvents) :
       /\ UnscheduledEvents[a].indices # <<>>
       /\ UnscheduledEvents[b].indices = <<>>

\* a shutdown command was delivered and no runtests or runtests_all command
\* came after it: every index enqueued was enqueued before the shutdown
AllEnqueuedBeforeShutdown ==
  /\ ShutdownDispatched
  /\ \A j \in 1..Len(cmdlog) :
       cmdlog[j] \in {"runtests", "runtests_all"} =>
         \A k \in 1..(j - 1) : cmdlog[k] # "shutdown"

\* C12: no work is lost: when the main loop has returned, every index
\* enqueued before the shutdown command has been executed by the main loop
\* or reported in an unscheduled event (or is held by a steal that is about
\* to report it), whatever the interleaving of steals with the dequeues.
C12_NoWorkLost ==
  (mpc = "done" /\ AllEnqueuedBeforeShutdown) =>
     Elems(enqueued) \subseteq (Elems(executed) \cup Reported \cup Elems(stolen))

IsSuffix(a, b) ==
  /\ Len(a) <= Len(b)
  /\ a = SubSeq(b, Len(b) - Len(a) + 1, Len(b))

\* C13: a steal that finds the shutdown mark pending never reclaims it and
\* re-enqueues it in its place among the kept values: the mark is in no
\* stolen list and no unscheduled event, and when the drain is over the new
\* queue holds the kept part of the old contents in their order, mark
\* included, less what the main loop has already taken from its head.
C13_MarkKeepsItsPlace ==
  /\ SHUTDOWN_MARK \notin Elems(stolen)
  /\ SHUTDOWN_MARK \notin Reported
  /\ (dpc = "send" /\ Has(stealP, SHUTDOWN_MARK)) =>
       IsSuffix(queues[torun], Kept(stealP, indices))

\* the runtest_need_work events sent so far
NeedWorkCount ==
  Cardinality({k \in 1..Len(events) : events[k].name = "runtest_need_work"})

\* the dequeues the main thread has begun: those that returned and the one
\* it is in (self.torun read, get() called)
DequeuesStarted ==
  Len(got) + (IF mpc \in {"first_get", "gmw_get"} THEN 1 ELSE 0)

Held ==
  CASE mpc = "while" -> nextitem_index
    [] mpc \in {"engine", "except", "complete", "next_index",
                "gmw_read", "gmw_get"} -> dn_nextitem_index
    [] OTHER -> None

\* C15: what a DummyNext resolves is what the main loop acts on next: the
\* indices dequeued so far are the indices executed, in order, followed by
\* the one resolved index still held for the next iteration (no dequeued
\* index is skipped or run twice), whether the engine or the loop resolved
\* it; a DummyNext resolved to the mark answers listchain() with the empty
\* chain, and nothing is dequeued after the mark.
C15_ResolvedIsRunNext ==
  /\ SelectSeq(got, LAMBDA x : x # SHUTDOWN_MARK) =
       executed \o (IF Held \in Indices THEN <<Held>> ELSE <<>>)
  /\ dn_nextitem_index = SHUTDOWN_MARK => listchain(real_next) = <<>>
  /\ dn_nextitem_index \in Indices => listchain(real_next) = <<dn_nextitem_index>>
  /\ Has(got, SHUTDOWN_MARK) => Last(got) = SHUTDOWN_MARK

\* C16: if the first value the main loop dequeues is the shutdown mark, the
\* loop returns at once: it goes from the dequeue to the while test and out,
\* dequeues nothing more, executes no item, and the main thread sends no
\* event (no runtest_need_work, runtest_protocol_complete or exception).
C16_MarkFirstReturnsAtOnce ==
  (got # <<>> /\ got[1] = SHUTDOWN_MARK) =>
     /\ mpc \in {"while", "done"}
     /\ got = <<SHUTDOWN_MARK>>
     /\ executed = <<>>
     /\ \A k \in 1..Len(events) :
          /\ events[k].thread # "main"
          /\ events[k].name \notin {"runtest_need_work", "exception",
                                     "runtest_protocol_complete"}

\* the loop has returned on a mark dequeued first, with an index enqueued
\* behind the mark left in the queue
C16_Witness ==
  /\ mpc = "done"
  /\ got = <<SHUTDOWN_MARK>>
  /\ enqueued # <<>>
  /\ queues[torun] # <<>>

\* C17 as stated: every event other than runtest_logmessage is sent by the
\* main thread, none by the receiver thread that runs handle_command.
C17_OnlyMainThreadSends ==
  \A k \in 1..Len(events) :
    events[k].name # "runtest_logmessage" => events[k].thread = "main"

\* C17, amended: every event other than runtest_logmessage and unscheduled
\* is sent by the main thread; the unscheduled event of a steal is sent by
\* the receiver thread that runs handle_command.
C17_OnlyMainOrStealSends ==
  \A k \in 1..Len(events) :
    /\ events[k].name \notin {"runtest_logmessage", "unscheduled"} =>
         events[k].thread = "main"
    /\ events[k].name = "unscheduled" => events[k].thread = "receiver"

\* the channel has carried a main-thread event, then a steal's unscheduled
\* event, and a log message of another thread
C17_Witness ==
  \E a, b, c \in 1..Len(events) :
    /\ a < b
    /\ events[a].name = "runtest_need_work"
    /\ events[b].name = "unscheduled"
    /\ events[c].name = "runtest_logmessage"
    /\ events[c].thread = "other"

\* the runtest_protocol_complete events among the first n events
CompletesBefore(n) ==
  Cardinality({j \in 1..n : events[j].name = "runtest_protocol_complete"})

\* C18: the assert of pytest_runtest_logreport never fails, and every
\* testreport event carries the index of the item in whose engine
\* invocation it was sent (the executed item that follows the invocations
\* already completed), also after the DummyNext of that invocation has
\* resolved the next index and while a steal replaces the queue.
C18_ReportCarriesCurrentItem ==
  /\ ~assert_failed
  /\ \A k \in 1..Len(events) :
       events[k].name = "testreport" =>
         /\ CompletesBefore(k - 1) < Len(executed)
         /\ events[k].item_index = executed[CompletesBefore(k - 1) + 1]

\* a report was sent after the DummyNext of its invocation had resolved a
\* different next index, while a steal was draining the old queue
C18_Witness ==
  /\ mpc = "engine"
  /\ dpc = "drain"
  /\ events # <<>>
  /\ Last(events).name = "testreport"
  /\ dn_nextitem_index \in Indices
  /\ dn_nextitem_index # Last(events).item_index

\* the records whose formatting and serialization both succeed
Sendable == SelectSeq(emit_calls, LAMBDA r : r.fmt /\ r.ser)
LogEvents == SelectSeq(events, LAMBDA e : e.name = "runtest_logmessage")

\* C19: emit never raises past its caller: a record whose formatting or
\* serialization fails sends no runtest_logmessage event and goes to
\* handleError, one that succeeds sends exactly one event, and in both
\* cases the main loop and the queues are left as they were.
C19_EmitSendsOrHandlesError ==
  /\ [](/\ Len(LogEvents) = Len(Sendable)
        /\ handle_errors = Len(emit_calls) - Len(Sendable))
  /\ [][ emit_calls' # emit_calls =>
           /\ UNCHANGED << queues, torun, mpc, mvars, dpc, dvars, got,
                           executed, assert_failed >>
           /\ IF Last(emit_calls').fmt /\ Last(emit_calls').ser
                THEN /\ Len(events') = Len(events) + 1
                     /\ Last(events').name = "runtest_logmessage"
                     /\ handle_errors' = handle_errors
                ELSE /\ events' = events
                     /\ handle_errors' = handle_errors + 1 ]_vars

\* during an engine invocation a record that was formatted but could not be
\* serialized went to handleError
C19_Witness ==
  /\ mpc = "engine"
  /\ handle_errors >= 1
  /\ \E k \in 1..Len(emit_calls) : emit_calls[k].fmt /\ ~emit_calls[k].ser

BaseKeys == {"message_str", "message_module", "message_class_name",
             "message_args", "category_module", "category_class_name"}

=============================================================================
